---- MODULE Spec2Model ----
(***************************************************************************)
(* Model of the OnedataFS PyFilesystem adapter                             *)
(* (src/fs_onedatafs/_onedatafs.py).                                       *)
(*                                                                         *)
(* Two state machines share this module:                                   *)
(*   SpecFS    the namespace operations of class OnedataFS, run against a  *)
(*             remote namespace (the wrapped native client);               *)
(*   SpecFile  the operations of one OnedataFile handle, run by threads    *)
(*             against the remote content of the file it was opened on.    *)
(* The wrapped native client is not part of the repository.  It is modelled*)
(* as a plain store: stat/readdir/unlink/open/getxattr act on `kind' and   *)
(* `xattr', positioned read/write act on `fdata'.                          *)
(***************************************************************************)
EXTENDS Integers, Sequences, FiniteSets, TLC

(***************************************************************************)
(* Paths are sequences of names, the root is the empty sequence.           *)
(***************************************************************************)
Names == <<"a", "b">>

NameSet == {Names[i] : i \in 1..Len(Names)}

Root == <<>>

Paths == {Root} \cup {<<n>> : n \in NameSet}
                \cup {<<n, m>> : n \in NameSet, m \in NameSet}

\* fs.path.dirname: the parent of a path, the root being its own parent
dirname(p) == IF p = Root THEN Root ELSE SubSeq(p, 1, Len(p) - 1)

XNames == {"k"}

XVals == {"v1", "v2"}

\* the entries that may carry an attribute when the session starts
XPaths == {Root, <<"a">>}

\* fs.mode.Mode: a mode is the sequence of its characters
Modes == { <<"r">>, <<"w">>, <<"a">>, <<"x">>,
           <<"r", "+">>, <<"w", "+">>, <<"a", "+">>, <<"x", "+">> }

Chars(m) == {m[i] : i \in 1..Len(m)}

reading(m) == "r" \in Chars(m) \/ "+" \in Chars(m)

writing(m) == "w" \in Chars(m) \/ "a" \in Chars(m)
                \/ "+" \in Chars(m) \/ "x" \in Chars(m)

exclusive(m) == "x" \in Chars(m)

\* Python truth value of a list
Truthy(list) == list # <<>>

VARIABLES
    kind,      \* remote namespace: path -> "none" | "dir" | "file"
    xattr,     \* remote extended attributes: path -> name -> value | "absent"
    kind0,     \* the remote namespace as it was when the last call started
    res,       \* the last completed OnedataFS call: operation, arguments, outcome
    calls      \* the remote calls issued by that call, in order

fsvars == <<kind, xattr, kind0, res, calls>>

VARIABLES
    fdata,      \* remote content of the file the handle was opened on
    hmode,      \* OnedataFile.mode
    pos,        \* OnedataFile.pos, the cursor
    closed,     \* io.RawIOBase closed flag of the OnedataFile
    closeCalls, \* how many times the underlying handle's close was invoked
    uclosed,    \* the underlying handle has been closed
    lock,       \* OnedataFile._lock: "free" or the thread holding it
    pc,         \* per thread: position in the OnedataFile method it runs
    cur,        \* per thread: the call in progress and its arguments
    chunks,     \* per thread: local `chunks' of read
    remaining,  \* per thread: local `remaining' of read
    hres,       \* per thread: the last completed call and its outcome
    hcalls,     \* per thread: positioned calls issued by the current/last call
    rt,         \* progress of a write / seek(0) / read sequence on the handle
    fr          \* progress of successive read(-1) calls on a fresh handle

filevars == <<fdata, hmode, pos, closed, closeCalls, uclosed, lock, pc, cur,
              chunks, remaining, hres, hcalls, rt, fr>>

VARIABLES
    stored,     \* per path: tag of the data the file there holds, 0 when none
    stored0,    \* `stored' before the last OnedataFS call
    pages,      \* the pages the remote serves for the listed directory
    directory,  \* local `_directory' of listdir
    loffset,    \* local `offset' of listdir
    batch,      \* local `batch' of listdir
    lpc,        \* position in listdir: "idle", "loop" or "done"
    lcalls,     \* the readdir calls listdir issued, in order
    lres        \* the entries listdir returned

dirvars == <<stored, stored0, pages, directory, loffset, batch, lpc, lcalls, lres>>

VARIABLES
    pmode,      \* `attr.mode' handed to the permission conversion
    perm        \* the Permissions the last conversion built, and which one built it

permvars == <<pmode, perm>>

vars == <<fsvars, filevars, dirvars, permvars>>

(***************************************************************************)
(* The remote namespace (native client).                                   *)
(***************************************************************************)
\* every entry lives in a directory
WellFormed(k) ==
    /\ k[Root] = "dir"
    /\ \A p \in Paths : (p # Root /\ k[p] # "none") => k[dirname(p)] = "dir"

\* the entries of directory p, in the remote's stable order
ChildrenIn(k, p) ==
    IF Len(p) >= 2 THEN <<>>
    ELSE LET present(n) == k[Append(p, n)] # "none"
         IN  SelectSeq(Names, present)

Children(p) == ChildrenIn(kind, p)

\* _odfs.readdir(path, count, offset): at most `count' entries from `offset'
RemoteReaddir(p, count, offset) ==
    LET all == Children(p)
        last == IF offset + count < Len(all) THEN offset + count ELSE Len(all)
    IN  SubSeq(all, offset + 1, last)

\* _odfs.getxattr(path, name)
RemoteGetxattr(p, name) == xattr[p][name]

\* the namespace after _odfs.unlink(path): a directory that still holds
\* entries is refused by the remote, anything else disappears
UnlinkRefused(p) == kind[p] = "dir" /\ Children(p) # <<>>

RemoteUnlink(p) ==
    IF UnlinkRefused(p) THEN kind ELSE [kind EXCEPT ![p] = "none"]

\* the namespace after _odfs.open(path): opening a missing path creates the file
RemoteOpen(p) ==
    IF kind[p] = "none" THEN [kind EXCEPT ![p] = "file"] ELSE kind

NoXattr == [n \in XNames |-> "absent"]

(***************************************************************************)
(* OnedataFS helpers.                                                      *)
(***************************************************************************)
\* OnedataFS.getinfo: ResourceNotFound when the remote stat reports
\* 'No such file or directory', otherwise the Info of the entry
getinfo(p) ==
    IF kind[p] = "none"
    THEN [err |-> "ResourceNotFound", is_dir |-> FALSE]
    ELSE [err |-> "none", is_dir |-> (kind[p] = "dir")]

\* OnedataFS.isdir: getinfo(path).is_dir, False on ResourceNotFound
isdir(p) == getinfo(p).err = "none" /\ getinfo(p).is_dir

\* OnedataFS.isempty: returns what the 1-entry listing probe returned
isempty(p) == RemoteReaddir(p, 1, 0)

Result(op, path, arg, outcome, value) ==
    [op |-> op, path |-> path, arg |-> arg, outcome |-> outcome, value |-> value]

(***************************************************************************)
(* OnedataFS operations.                                                   *)
(***************************************************************************)
\* OnedataFS.isempty(path)
Isempty(path) ==
    /\ res' = IF kind[path] = "dir"
              THEN Result("isempty", path, <<>>, "ok", isempty(path))
              ELSE Result("isempty", path, <<>>, "RemoteError", <<>>)
    /\ calls' = << <<"readdir", path, 1, 0>> >>
    /\ kind0' = kind
    /\ UNCHANGED <<kind, xattr, filevars, dirvars, permvars>>

\* what the remote may report besides a missing path; "none": no failure
Faults == {"none", "Input/output error"}

\* _odfs.stat(path): the message of the RuntimeError it raises, "none" when it
\* returns the attributes
RemoteStat(p, fault) ==
    IF fault # "none" THEN fault
    ELSE IF kind[p] = "none" THEN "No such file or directory"
    ELSE "none"

\* a getinfo that reports every failure of the remote as a missing path
StatFailure_AllNotFound(message) == "ResourceNotFound"

\* getinfo: `if error.message == 'No such file or directory': raise
\* errors.ResourceNotFound(path)', `raise error' otherwise
StatFailure(message) ==
    IF message = "No such file or directory" THEN "ResourceNotFound"
    ELSE "RuntimeError"

\* OnedataFS.getinfo(path), the remote failing with `fault' or not at all
Getinfo(path, fault) ==
    LET message == RemoteStat(path, fault)
    IN
    /\ res' = IF message = "none"
              THEN Result("getinfo", path, <<fault>>, "ok",
                          <<"Info", kind[path] = "dir">>)
              ELSE IF StatFailure(message) = "ResourceNotFound"
              THEN Result("getinfo", path, <<fault>>, "ResourceNotFound", <<>>)
              ELSE Result("getinfo", path, <<fault>>, StatFailure(message), <<message>>)
    /\ calls' = << <<"stat", path>> >>
    /\ kind0' = kind
    /\ UNCHANGED <<kind, xattr, filevars, dirvars, permvars>>

\* a removedir that treats the root like any other directory
IsRoot_Never(path) == FALSE

\* removedir: `if _path == "/"'
IsRoot(path) == path = Root

\* OnedataFS.removedir(path)
Removedir(path) ==
    LET info == getinfo(path)
        stat == << <<"stat", path>> >>
        probe == << <<"readdir", path, 1, 0>> >>
    IN
    /\ kind0' = kind
    /\ UNCHANGED <<filevars, dirvars, permvars>>
    /\ IF IsRoot(path) THEN
           /\ res' = Result("removedir", path, <<>>, "RemoveRootError", <<>>)
           /\ calls' = <<>>
           /\ UNCHANGED <<kind, xattr>>
       ELSE IF info.err # "none" THEN
           /\ res' = Result("removedir", path, <<>>, "ResourceNotFound", <<>>)
           /\ calls' = stat
           /\ UNCHANGED <<kind, xattr>>
       ELSE IF ~info.is_dir THEN
           /\ res' = Result("removedir", path, <<>>, "DirectoryExpected", <<>>)
           /\ calls' = stat
           /\ UNCHANGED <<kind, xattr>>
       ELSE IF ~Truthy(isempty(path)) THEN
           /\ res' = Result("removedir", path, <<>>, "DirectoryNotEmpty", <<>>)
           /\ calls' = stat \o probe
           /\ UNCHANGED <<kind, xattr>>
       ELSE
           /\ res' = Result("removedir", path, <<>>,
                            IF UnlinkRefused(path) THEN "RemoteError" ELSE "ok", <<>>)
           /\ calls' = stat \o probe \o << <<"unlink", path>> >>
           /\ kind' = RemoteUnlink(path)
           /\ xattr' = IF UnlinkRefused(path) THEN xattr
                       ELSE [xattr EXCEPT ![path] = NoXattr]

\* OnedataFS.getxattr(path, name)
Getxattr(path, name) ==
    LET info == getinfo(path)
        v == RemoteGetxattr(path, name)
    IN
    /\ IF info.err # "none" THEN
           /\ res' = Result("getxattr", path, <<name>>, "ResourceNotFound", <<>>)
           /\ calls' = << <<"stat", path>> >>
       ELSE
           /\ res' = Result("getxattr", path, <<name>>,
                            IF v = "absent" THEN "RemoteError" ELSE "ok", v)
           /\ calls' = << <<"stat", path>>, <<"getxattr", path, name>> >>
    /\ kind0' = kind
    /\ UNCHANGED <<kind, xattr, filevars, dirvars, permvars>>

\* OnedataFS.setxattr(path, name, value)
Setxattr(path, name, value) ==
    LET info == getinfo(path)
        v == RemoteGetxattr(path, name)
    IN
    /\ IF info.err # "none" THEN
           /\ res' = Result("setxattr", path, <<name, value>>, "ResourceNotFound", <<>>)
           /\ calls' = << <<"stat", path>> >>
       ELSE
           /\ res' = Result("setxattr", path, <<name, value>>,
                            IF v = "absent" THEN "RemoteError" ELSE "ok", v)
           /\ calls' = << <<"stat", path>>, <<"getxattr", path, name>> >>
    /\ kind0' = kind
    /\ UNCHANGED <<kind, xattr, filevars, dirvars, permvars>>

\* an openbin that looks at the exclusive flag only
ExistingRefused_FilesOnly(info, mode) ==
    IF ~info.is_dir /\ exclusive(mode) THEN "FileExists" ELSE "none"

\* openbin, the path exists: `if info.is_dir: raise errors.FileExpected',
\* `if _mode.exclusive: raise errors.FileExists'
ExistingRefused(info, mode) ==
    IF info.is_dir THEN "FileExpected"
    ELSE IF exclusive(mode) THEN "FileExists"
    ELSE "none"

\* OnedataFS.openbin(path, mode)
Openbin(path, mode) ==
    LET info == getinfo(path)
        parent == dirname(path)
        stat == << <<"stat", path>> >>
        pstat == << <<"stat", parent>> >>
        fail(outcome, issued) ==
            /\ res' = Result("openbin", path, mode, outcome, <<>>)
            /\ calls' = issued
            /\ UNCHANGED <<kind, xattr>>
        open(issued) ==
            /\ res' = Result("openbin", path, mode, "ok", <<"handle", path, mode>>)
            /\ calls' = issued \o << <<"open", path>> >>
            /\ kind' = RemoteOpen(path)
            /\ UNCHANGED xattr
    IN
    /\ kind0' = kind
    /\ UNCHANGED <<filevars, dirvars, permvars>>
    /\ IF info.err # "none" THEN
           IF reading(mode) THEN fail("ResourceNotFound", stat)
           ELSE IF writing(mode) /\ ~isdir(parent)
                THEN fail("ResourceNotFound", stat \o pstat)
                ELSE open(IF writing(mode) THEN stat \o pstat ELSE stat)
       ELSE IF ExistingRefused(info, mode) # "none"
            THEN fail(ExistingRefused(info, mode), stat)
            ELSE open(stat)

(***************************************************************************)
(* OnedataFile: one handle, the threads that use it, and the remote        *)
(* content of the file it was opened on.                                   *)
(***************************************************************************)
\* largest file the model lets write build
MaxFile == 3

\* longest data passed to one write
MaxData == 2

\* most invocations of the underlying close the model follows
MaxCloses == 3

\* fs.constants.DEFAULT_CHUNK_SIZE, scaled down to the size of the model's files
DEFAULT_CHUNK_SIZE == 2

Threads == {"t1", "t2"}

\* the threads of the sequential specification
SeqThreads == {"t1"}

\* the path the handle was opened on
FilePath == <<"a">>

HandleModes == { <<"r">>, <<"w">>, <<"r", "+">> }

\* fs.Seek: set = 0, current = 1, end = 2
SeekWhences == {0, 1, 2}

Min(a, b) == IF a < b THEN a ELSE b

Max(a, b) == IF a > b THEN a ELSE b

\* the data a caller may pass to write
Data == UNION {[1..n -> {1, 2}] : n \in 0..MaxData}

\* the content the file may have when the handle is opened
Content(n) == [i \in 1..n |-> IF i % 2 = 1 THEN 1 ELSE 2]

InitContents == {Content(n) : n \in 0..MaxFile}

\* handle.read / handle.write on a closed handle or at a negative offset raise
Refused(offset) == uclosed \/ offset < 0

\* handle.read(offset, size): the bytes at offset, at most size of them and
\* at least one unless the offset is at or past the end
RemoteRead(offset, size) ==
    LET most == Min(size, Len(fdata) - offset)
    IN  IF most <= 0 THEN {<<>>}
        ELSE {SubSeq(fdata, offset + 1, offset + n) : n \in 1..most}

\* content f after data is written at offset, a gap is zero-filled
WriteOn(f, data, offset) ==
    IF data = <<>> THEN f
    ELSE [i \in 1..Max(Len(f), offset + Len(data)) |->
            IF i > offset /\ i <= offset + Len(data) THEN data[i - offset]
            ELSE IF i <= Len(f) THEN f[i] ELSE 0]

\* handle.write(data, offset): the content afterwards
RemoteWrite(data, offset) == WriteOn(fdata, data, offset)

\* a read that asks for a whole chunk whatever is left to read
ReadSize_WholeChunk(rem) == DEFAULT_CHUNK_SIZE

\* read: the size of the next chunk request
ReadSize(rem) ==
    IF rem < 0 THEN DEFAULT_CHUNK_SIZE ELSE Min(DEFAULT_CHUNK_SIZE, rem)

\* read: `self.pos += len(chunk)'
ReadCursor(cursor, chunk) == cursor + Len(chunk)

\* a read that counts the bytes it got the wrong way round
ReadRemaining_Added(rem, chunk) == rem + Len(chunk)

\* read: `remaining -= len(chunk)'
ReadRemaining(rem, chunk) == rem - Len(chunk)

\* a write that leaves the cursor where it was
WriteCursor_Kept(cursor, data) == cursor

\* write: `self.pos += len(data)'
WriteCursor(cursor, data) == cursor + Len(data)

\* a seek that stops at the end of the file
SeekCursor_Clamped(p, whence, size, cursor) == Min(p, size)

\* seek: `self.pos = pos', whatever whence and the file size are
SeekCursor(p, whence, size, cursor) == p

\* a close that does not look at the closed flag
CloseNeeded_Always(isclosed) == TRUE

\* close: `if not self.closed'
CloseNeeded(isclosed) == ~isclosed

\* a close that marks the handle closed only when the underlying close returned
ClosedAfter_OnSuccess(raises) == ~raises

\* close: `finally: super(OnedataFile, self).close()', the flag is set whether
\* or not the underlying close raised
ClosedAfter(raises) == TRUE

NoCall == [op |-> "none", arg |-> <<>>, pos0 |-> 0, was |-> FALSE]

\* a call as it starts: the cursor and the closed flag it finds
Begin(op, arg) == [op |-> op, arg |-> arg, pos0 |-> pos, was |-> closed]

Outcome(c, outcome, value) ==
    [op |-> c.op, arg |-> c.arg, pos0 |-> c.pos0, was |-> c.was,
     outcome |-> outcome, value |-> value]

\* write at cursor 0, then seek(0, set), then read(len(data)): how far the
\* calls completed on the handle have come in that sequence
TrackRT(c, outcome) ==
    IF c.op = "write" /\ outcome = "ok" /\ c.pos0 = 0 /\ reading(hmode)
    THEN [st |-> 1, d |-> c.arg]
    ELSE IF c.op = "seek" /\ rt.st = 1 /\ c.arg = <<0, 0>>
    THEN [st |-> 2, d |-> rt.d]
    ELSE IF c.op = "read" /\ rt.st = 2 /\ c.arg = Len(rt.d)
    THEN [st |-> 3, d |-> rt.d]
    ELSE [st |-> 0, d |-> <<>>]

\* read(-1) as the first call on a readable handle, then read(-1) again
TrackFR(c) ==
    IF c.op = "read" /\ c.arg = -1 /\ fr = "fresh" /\ reading(hmode)
    THEN "read1"
    ELSE IF c.op = "read" /\ c.arg = -1 /\ fr = "read1"
    THEN "read2"
    ELSE "used"

\* thread t returns from (or raises out of) call c
Finish(t, c, outcome, value) ==
    /\ hres' = [hres EXCEPT ![t] = Outcome(c, outcome, value)]
    /\ pc' = [pc EXCEPT ![t] = "idle"]
    /\ cur' = [cur EXCEPT ![t] = NoCall]
    /\ chunks' = [chunks EXCEPT ![t] = <<>>]
    /\ remaining' = [remaining EXCEPT ![t] = 0]
    /\ rt' = TrackRT(c, outcome)
    /\ fr' = TrackFR(c)

\* thread t moves on inside call c
Goto(t, label, c) ==
    /\ pc' = [pc EXCEPT ![t] = label]
    /\ cur' = [cur EXCEPT ![t] = c]
    /\ UNCHANGED <<hres, rt, fr>>

\* OnedataFile.read(size): the mode check and the locals
ReadBegin(t, size) ==
    /\ pc[t] = "idle"
    /\ hcalls' = [hcalls EXCEPT ![t] = <<>>]
    /\ IF ~reading(hmode)
       THEN Finish(t, Begin("read", size), "IOError", <<>>)
       ELSE /\ Goto(t, "read_lock", Begin("read", size))
            /\ chunks' = [chunks EXCEPT ![t] = <<>>]
            /\ remaining' = [remaining EXCEPT ![t] = size]
    /\ UNCHANGED <<fsvars, dirvars, permvars>>
    /\ UNCHANGED <<fdata, hmode, pos, closed, closeCalls, uclosed, lock>>

\* OnedataFile.read: `with self._lock'
ReadLock(t) ==
    /\ pc[t] = "read_lock"
    /\ lock = "free"
    /\ lock' = t
    /\ Goto(t, "read_loop", [cur[t] EXCEPT !.pos0 = pos])
    /\ UNCHANGED <<fsvars, dirvars, permvars>>
    /\ UNCHANGED <<fdata, hmode, pos, closed, closeCalls, uclosed,
                   chunks, remaining, hcalls>>

\* OnedataFile.read: one turn of `while remaining', the lock is held
ReadLoop(t) ==
    LET rem == remaining[t]
        size == ReadSize(rem)
    IN
    /\ pc[t] = "read_loop"
    /\ IF rem = 0 THEN
           /\ Finish(t, cur[t], "ok", chunks[t])
           /\ lock' = "free"
           /\ UNCHANGED <<pos, hcalls>>
       ELSE
           /\ hcalls' = [hcalls EXCEPT ![t] = Append(@, <<"read", pos, size>>)]
           /\ IF Refused(pos) THEN
                  /\ Finish(t, cur[t], "RemoteError", <<>>)
                  /\ lock' = "free"
                  /\ UNCHANGED pos
              ELSE \E chunk \in RemoteRead(pos, size) :
                  IF chunk = <<>> THEN
                      /\ Finish(t, cur[t], "ok", chunks[t])
                      /\ lock' = "free"
                      /\ UNCHANGED pos
                  ELSE
                      /\ chunks' = [chunks EXCEPT ![t] = @ \o chunk]
                      /\ pos' = ReadCursor(pos, chunk)
                      /\ remaining' = [remaining EXCEPT ![t] = ReadRemaining(rem, chunk)]
                      /\ UNCHANGED <<pc, cur, hres, rt, fr, lock>>
    /\ UNCHANGED <<fsvars, dirvars, permvars>>
    /\ UNCHANGED <<fdata, hmode, closed, closeCalls, uclosed>>

\* OnedataFile.write(data): the mode check
WriteBegin(t, data) ==
    /\ pc[t] = "idle"
    /\ pos + Len(data) <= MaxFile
    /\ hcalls' = [hcalls EXCEPT ![t] = <<>>]
    /\ IF ~writing(hmode)
       THEN Finish(t, Begin("write", data), "IOError", 0)
       ELSE /\ Goto(t, "write_lock", Begin("write", data))
            /\ UNCHANGED <<chunks, remaining>>
    /\ UNCHANGED <<fsvars, dirvars, permvars>>
    /\ UNCHANGED <<fdata, hmode, pos, closed, closeCalls, uclosed, lock>>

\* OnedataFile.write: the body of `with self._lock'
WriteLocked(t) ==
    LET data == cur[t].arg
        c == [cur[t] EXCEPT !.pos0 = pos]
    IN
    /\ pc[t] = "write_lock"
    /\ lock = "free"
    /\ hcalls' = [hcalls EXCEPT ![t] = << <<"write", data, pos>> >>]
    /\ IF Refused(pos) THEN
           /\ Finish(t, c, "RemoteError", 0)
           /\ UNCHANGED <<fdata, pos>>
       ELSE
           /\ fdata' = RemoteWrite(data, pos)
           /\ pos' = WriteCursor(pos, data)
           /\ Finish(t, c, "ok", Len(data))
    /\ UNCHANGED <<fsvars, dirvars, permvars>>
    /\ UNCHANGED <<hmode, closed, closeCalls, uclosed, lock>>

\* OnedataFile.seek(pos, whence): the whence check and the size lookup
SeekBegin(t, p, whence) ==
    /\ pc[t] = "idle"
    /\ hcalls' = [hcalls EXCEPT ![t] = <<>>]
    /\ IF whence \notin SeekWhences
       THEN Finish(t, Begin("seek", <<p, whence>>), "ValueError", 0)
       ELSE IF getinfo(FilePath).err # "none"
       THEN Finish(t, Begin("seek", <<p, whence>>), "ResourceNotFound", 0)
       ELSE /\ Goto(t, "seek_lock", Begin("seek", <<p, whence>>))
            /\ UNCHANGED <<chunks, remaining>>
    /\ UNCHANGED <<fsvars, dirvars, permvars>>
    /\ UNCHANGED <<fdata, hmode, pos, closed, closeCalls, uclosed, lock>>

\* OnedataFile.seek: the body of `with self._lock'
SeekLocked(t) ==
    /\ pc[t] = "seek_lock"
    /\ lock = "free"
    /\ pos' = SeekCursor(cur[t].arg[1], cur[t].arg[2], Len(fdata), pos)
    /\ Goto(t, "seek_ret", [cur[t] EXCEPT !.pos0 = pos])
    /\ UNCHANGED <<fsvars, dirvars, permvars>>
    /\ UNCHANGED <<fdata, hmode, closed, closeCalls, uclosed, lock,
                   chunks, remaining, hcalls>>

\* OnedataFile.seek: `return self.tell()'
SeekRet(t) ==
    /\ pc[t] = "seek_ret"
    /\ Finish(t, cur[t], "ok", pos)
    /\ UNCHANGED <<fsvars, dirvars, permvars>>
    /\ UNCHANGED <<fdata, hmode, pos, closed, closeCalls, uclosed, lock, hcalls>>

\* OnedataFile.truncate(size): `self._opfs' is an attribute the handle
\* never gets, so the lookup raises before anything is sent to the remote
Truncate(t, given, size) ==
    /\ pc[t] = "idle"
    /\ hcalls' = [hcalls EXCEPT ![t] = <<>>]
    /\ Finish(t, Begin("truncate", IF given THEN size ELSE 0), "AttributeError", 0)
    /\ UNCHANGED <<fsvars, dirvars, permvars>>
    /\ UNCHANGED <<fdata, hmode, pos, closed, closeCalls, uclosed, lock>>

\* OnedataFile.close(): the test of the closed flag
CloseBegin(t) ==
    /\ pc[t] = "idle"
    /\ hcalls' = [hcalls EXCEPT ![t] = <<>>]
    /\ IF CloseNeeded(closed)
       THEN /\ Goto(t, "close_lock", Begin("close", <<>>))
            /\ UNCHANGED <<chunks, remaining>>
       ELSE Finish(t, Begin("close", <<>>), "ok", 0)
    /\ UNCHANGED <<fsvars, dirvars, permvars>>
    /\ UNCHANGED <<fdata, hmode, pos, closed, closeCalls, uclosed, lock>>

\* OnedataFile.close: the body of `with self._lock'; the underlying close
\* may raise, the flag is set in the `finally' either way
CloseLocked(t, raises) ==
    /\ pc[t] = "close_lock"
    /\ lock = "free"
    /\ closeCalls < MaxCloses
    /\ hcalls' = [hcalls EXCEPT ![t] = << <<"close">> >>]
    /\ closeCalls' = closeCalls + 1
    /\ uclosed' = (uclosed \/ ~raises)
    /\ closed' = ClosedAfter(raises)
    /\ Finish(t, cur[t], IF raises THEN "RemoteError" ELSE "ok", 0)
    /\ UNCHANGED <<fsvars, dirvars, permvars>>
    /\ UNCHANGED <<fdata, hmode, pos, lock>>

(***************************************************************************)
(* The two state machines.                                                 *)
(***************************************************************************)
\* the handle as OnedataFile.__init__ leaves it
FreshHandle(content, mode) ==
    /\ fdata = content
    /\ hmode = mode
    /\ pos = 0
    /\ closed = FALSE
    /\ closeCalls = 0
    /\ uclosed = FALSE
    /\ lock = "free"
    /\ pc = [t \in Threads |-> "idle"]
    /\ cur = [t \in Threads |-> NoCall]
    /\ chunks = [t \in Threads |-> <<>>]
    /\ remaining = [t \in Threads |-> 0]
    /\ hres = [t \in Threads |-> Outcome(NoCall, "ok", 0)]
    /\ hcalls = [t \in Threads |-> <<>>]
    /\ rt = [st |-> 0, d |-> <<>>]
    /\ fr = "fresh"

\* no Permissions built yet
NoPerm ==
    [by |-> "none", user |-> <<>>, group |-> <<>>, other |-> <<>>,
     sticky |-> 0, setuid |-> 0, setguid |-> 0]

\* no listing in progress, every file empty, no mode converted
NoListing ==
    /\ pmode = 0
    /\ perm = NoPerm
    /\ stored = [p \in Paths |-> 0]
    /\ stored0 = stored
    /\ pages = <<>>
    /\ directory = {}
    /\ loffset = 0
    /\ batch = <<>>
    /\ lpc = "idle"
    /\ lcalls = <<>>
    /\ lres = {}

\* a namespace in which the handle's path is a regular file
FileNamespace ==
    [p \in Paths |-> IF p = Root THEN "dir"
                     ELSE IF p = FilePath THEN "file" ELSE "none"]

InitFS ==
    /\ kind \in {k \in [Paths -> {"none", "dir", "file"}] : WellFormed(k)}
    /\ xattr \in {x \in [Paths -> [XNames -> {"absent", "v1"}]] :
                    \A p \in Paths :
                        (kind[p] = "none" \/ p \notin XPaths) => x[p] = NoXattr}
    /\ kind0 = kind
    /\ res = Result("init", Root, <<>>, "ok", <<>>)
    /\ calls = <<>>
    /\ FreshHandle(<<>>, <<"r">>)
    /\ NoListing

NextFS ==
    \/ \E p \in Paths : Isempty(p)
    \/ \E p \in Paths : Removedir(p)
    \/ \E p \in Paths, n \in XNames : Getxattr(p, n)
    \/ \E p \in Paths, n \in XNames, v \in XVals : Setxattr(p, n, v)
    \/ \E p \in Paths, m \in Modes : Openbin(p, m)
    \/ \E p \in Paths, fault \in Faults : Getinfo(p, fault)

SpecFS == InitFS /\ [][NextFS]_vars

InitFile ==
    /\ kind = FileNamespace
    /\ xattr = [p \in Paths |-> NoXattr]
    /\ kind0 = kind
    /\ res = Result("init", Root, <<>>, "ok", <<>>)
    /\ calls = <<>>
    /\ \E content \in InitContents, mode \in HandleModes :
           FreshHandle(content, mode)
    /\ NoListing

\* the arguments callers pass
ReadArgs == -1..MaxFile

\* seek positions: before the start, inside, at the end and, for every file
\* shorter than MaxFile, past the end
SeekArgs == -1..MaxFile

NextFile ==
    \/ \E t \in SeqThreads, size \in ReadArgs : ReadBegin(t, size)
    \/ \E t \in SeqThreads : ReadLock(t)
    \/ \E t \in SeqThreads : ReadLoop(t)
    \/ \E t \in SeqThreads, data \in Data : WriteBegin(t, data)
    \/ \E t \in SeqThreads : WriteLocked(t)
    \/ \E t \in SeqThreads, p \in SeekArgs, whence \in 0..3 : SeekBegin(t, p, whence)
    \/ \E t \in SeqThreads : SeekLocked(t)
    \/ \E t \in SeqThreads : SeekRet(t)
    \/ \E t \in SeqThreads, given \in BOOLEAN, size \in 0..MaxFile :
           Truncate(t, given, size)
    \/ \E t \in SeqThreads : CloseBegin(t)
    \/ \E t \in SeqThreads, raises \in BOOLEAN : CloseLocked(t, raises)

SpecFile == InitFile /\ [][NextFile]_vars

(***************************************************************************)
(* One thread on a handle whose positioned calls may fail at the remote.   *)
(***************************************************************************)
\* OnedataFile.read: `self.handle.read(self.pos, read_size)' raises
ReadFault(t) ==
    /\ pc[t] = "read_loop"
    /\ remaining[t] # 0
    /\ hcalls' = [hcalls EXCEPT ![t] = Append(@, <<"read", pos, ReadSize(remaining[t])>>)]
    /\ Finish(t, cur[t], "RemoteError", <<>>)
    /\ lock' = "free"
    /\ UNCHANGED <<fsvars, dirvars, permvars>>
    /\ UNCHANGED <<fdata, hmode, pos, closed, closeCalls, uclosed>>

\* OnedataFile.write: `self.handle.write(data, self.pos)' raises
WriteFault(t) ==
    /\ pc[t] = "write_lock"
    /\ lock = "free"
    /\ hcalls' = [hcalls EXCEPT ![t] = << <<"write", cur[t].arg, pos>> >>]
    /\ Finish(t, [cur[t] EXCEPT !.pos0 = pos], "RemoteError", 0)
    /\ UNCHANGED <<fsvars, dirvars, permvars>>
    /\ UNCHANGED <<fdata, hmode, pos, closed, closeCalls, uclosed, lock>>

InitFault ==
    /\ kind = FileNamespace
    /\ xattr = [p \in Paths |-> NoXattr]
    /\ kind0 = kind
    /\ res = Result("init", Root, <<>>, "ok", <<>>)
    /\ calls = <<>>
    /\ \E content \in InitContents : FreshHandle(content, <<"r", "+">>)
    /\ NoListing

NextFault ==
    \/ \E t \in SeqThreads, size \in ReadArgs : ReadBegin(t, size)
    \/ \E t \in SeqThreads : ReadLock(t)
    \/ \E t \in SeqThreads : ReadLoop(t)
    \/ \E t \in SeqThreads : ReadFault(t)
    \/ \E t \in SeqThreads, data \in Data : WriteBegin(t, data)
    \/ \E t \in SeqThreads : WriteLocked(t)
    \/ \E t \in SeqThreads : WriteFault(t)

SpecFault == InitFault /\ [][NextFault]_vars

(***************************************************************************)
(* Two threads share the handle, each makes one call on it.                *)
(***************************************************************************)
\* the content of the shared file when the threads start
ConcContent == Content(2)

ConcReadArgs == {-1, 1}

ConcData == { <<1>>, <<2, 2>> }

ConcSeekArgs == {1, 2}

\* thread t has not made its call yet
FirstCall(t) == hres[t].op = "none"

ConcRead(t, size) == FirstCall(t) /\ ReadBegin(t, size)

ConcWrite(t, data) == FirstCall(t) /\ WriteBegin(t, data)

ConcSeek(t, p) == FirstCall(t) /\ SeekBegin(t, p, 0)

ConcClose(t) == FirstCall(t) /\ CloseBegin(t)

InitConc ==
    /\ kind = FileNamespace
    /\ xattr = [p \in Paths |-> NoXattr]
    /\ kind0 = kind
    /\ res = Result("init", Root, <<>>, "ok", <<>>)
    /\ calls = <<>>
    /\ FreshHandle(ConcContent, <<"r", "+">>)
    /\ NoListing

NextConc ==
    \/ \E t \in Threads, size \in ConcReadArgs : ConcRead(t, size)
    \/ \E t \in Threads : ReadLock(t)
    \/ \E t \in Threads : ReadLoop(t)
    \/ \E t \in Threads, data \in ConcData : ConcWrite(t, data)
    \/ \E t \in Threads : WriteLocked(t)
    \/ \E t \in Threads, p \in ConcSeekArgs : ConcSeek(t, p)
    \/ \E t \in Threads : SeekLocked(t)
    \/ \E t \in Threads : SeekRet(t)
    \/ \E t \in Threads : ConcClose(t)
    \/ \E t \in Threads, raises \in BOOLEAN : CloseLocked(t, raises)

SpecConc == InitConc /\ [][NextConc]_vars

(***************************************************************************)
(* OnedataFS operations that rearrange the namespace.                      *)
(***************************************************************************)
NameIndex(n) == CHOOSE i \in 1..Len(Names) : Names[i] = n

\* the data a file holds when the session starts: a tag of its own per path
PathTag(p) ==
    IF p = Root THEN 0
    ELSE IF Len(p) = 1 THEN NameIndex(p[1])
    ELSE Len(Names) * NameIndex(p[1]) + NameIndex(p[2])

\* q is p or lies below p
Under(q, p) == Len(q) >= Len(p) /\ SubSeq(q, 1, Len(p)) = p

\* _odfs.rename(src, dst) is refused: no source, no directory to put dst in,
\* the root, a directory moved below itself, a file onto a directory or a
\* directory onto a file, a directory onto one that still holds entries
RenameRefused(src, dst) ==
    \/ kind[src] = "none"
    \/ src = Root
    \/ dst = Root
    \/ kind[dirname(dst)] # "dir"
    \/ src # dst /\ Under(dst, src)
    \/ kind[dst] = "dir" /\ kind[src] = "file"
    \/ kind[dst] = "file" /\ kind[src] = "dir"
    \/ src # dst /\ kind[dst] = "dir" /\ Children(dst) # <<>>

\* a per-path attribute f after _odfs.rename(src, dst): what was at or below
\* src is found at or below dst, nothing is left at src
Renamed(f, src, dst, nothing) ==
    IF src = dst THEN f
    ELSE [q \in Paths |->
            IF Under(q, dst)
            THEN LET from == src \o SubSeq(q, Len(dst) + 1, Len(q))
                 IN  IF from \in Paths THEN f[from] ELSE nothing
            ELSE IF Under(q, src) THEN nothing
            ELSE f[q]]

\* the renamed subtree fits the paths the model follows
RenameFits(src, dst) ==
    kind[src] = "dir" /\ Children(src) # <<>> => Len(dst) < 2

\* FS.exists: getinfo(path) did not raise ResourceNotFound
exists(p) == getinfo(p).err = "none"

\* a move that looks at the destination whatever `overwrite' says
MoveBlocked_IgnoresOverwrite(overwrite, there) == there

\* move: `if not overwrite and self.exists(dst_path)'
MoveBlocked(overwrite, there) == ~overwrite /\ there

\* OnedataFS.move(src_path, dst_path, overwrite)
Move(src, dst, overwrite) ==
    LET probe == IF overwrite THEN <<>> ELSE << <<"stat", dst>> >>
        rename == << <<"rename", src, dst>> >>
    IN
    /\ RenameFits(src, dst)
    /\ kind0' = kind
    /\ stored0' = stored
    /\ UNCHANGED <<filevars, permvars, pages, directory, loffset, batch, lpc, lcalls, lres>>
    /\ IF MoveBlocked(overwrite, exists(dst)) THEN
           /\ res' = Result("move", src, <<dst, overwrite>>, "FileExists", <<>>)
           /\ calls' = probe
           /\ UNCHANGED <<kind, xattr, stored>>
       ELSE IF RenameRefused(src, dst) THEN
           /\ res' = Result("move", src, <<dst, overwrite>>, "RemoteError", <<>>)
           /\ calls' = probe \o rename
           /\ UNCHANGED <<kind, xattr, stored>>
       ELSE
           /\ res' = Result("move", src, <<dst, overwrite>>, "ok", <<>>)
           /\ calls' = probe \o rename
           /\ kind' = Renamed(kind, src, dst, "none")
           /\ xattr' = Renamed(xattr, src, dst, NoXattr)
           /\ stored' = Renamed(stored, src, dst, 0)

\* makedir: `Permissions(user='rwx', group='r-x', other='r-x')', as a mode
DefaultMode == 493

\* the `permissions' callers pass: none, or a mode (0o700)
MakedirPermissions == { <<>>, <<448>> }

\* a makedir that creates the directory whatever the lookup of the target said
MkdirNeeded_Always(info) == TRUE

\* makedir: `try: self.getinfo(path) except errors.ResourceNotFound:'
MkdirNeeded(info) == info.err = "ResourceNotFound"

\* OnedataFS.makedir(path, permissions)
Makedir(path, permissions) ==
    LET parent == dirname(path)
        mode == IF permissions = <<>> THEN DefaultMode ELSE permissions[1]
        pstat == << <<"stat", parent>> >>
        stat == << <<"stat", path>> >>
    IN
    /\ kind0' = kind
    /\ stored0' = stored
    /\ UNCHANGED <<filevars, permvars, xattr, stored, pages, directory, loffset, batch, lpc,
                   lcalls, lres>>
    /\ IF ~isdir(parent) THEN
           /\ res' = Result("makedir", path, permissions, "ResourceNotFound", <<>>)
           /\ calls' = pstat
           /\ UNCHANGED kind
       ELSE IF MkdirNeeded(getinfo(path)) THEN
           /\ calls' = pstat \o stat \o << <<"mkdir", path, mode>> >>
           /\ IF kind[path] = "none" THEN
                  /\ res' = Result("makedir", path, permissions, "ok", <<"SubFS", path>>)
                  /\ kind' = [kind EXCEPT ![path] = "dir"]
              ELSE
                  /\ res' = Result("makedir", path, permissions, "RemoteError", <<>>)
                  /\ UNCHANGED kind
       ELSE
           /\ res' = Result("makedir", path, permissions, "ok", <<"SubFS", path>>)
           /\ calls' = pstat \o stat
           /\ UNCHANGED kind

InitDir ==
    /\ kind \in {k \in [Paths -> {"none", "dir", "file"}] : WellFormed(k)}
    /\ xattr = [p \in Paths |-> NoXattr]
    /\ kind0 = kind
    /\ res = Result("init", Root, <<>>, "ok", <<>>)
    /\ calls = <<>>
    /\ FreshHandle(<<>>, <<"r">>)
    /\ pmode = 0
    /\ perm = NoPerm
    /\ stored = [p \in Paths |-> IF kind[p] = "file" THEN PathTag(p) ELSE 0]
    /\ stored0 = stored
    /\ pages = <<>>
    /\ directory = {}
    /\ loffset = 0
    /\ batch = <<>>
    /\ lpc = "idle"
    /\ lcalls = <<>>
    /\ lres = {}

NextDir ==
    \/ \E src \in Paths, dst \in Paths, overwrite \in BOOLEAN : Move(src, dst, overwrite)
    \/ \E p \in Paths, given \in MakedirPermissions : Makedir(p, given)

SpecDir == InitDir /\ [][NextDir]_vars

(***************************************************************************)
(* OnedataFS.listdir over a remote that serves a directory page by page.   *)
(***************************************************************************)
\* listdir: `batch_size = 2500'
batch_size == 2500

\* most non-empty pages of a small remote source
MaxPages == 3

\* most entries in a page of a small remote source
MaxPage == 2

\* entry names of the small remote sources
PageNames == 1..2

Range(q) == {q[i] : i \in 1..Len(q)}

\* a non-empty page of a small remote source
SmallPage == UNION {[1..n -> PageNames] : n \in 1..MaxPage}

\* pages of 2500, 2500 and 137 entries, no name twice
BigPages ==
    << [i \in 1..2500 |-> i], [i \in 1..2500 |-> 2500 + i],
       [i \in 1..137 |-> 5000 + i] >>

\* the same pages, the last one repeating a name of the first
BigPagesRepeat ==
    << [i \in 1..2500 |-> i], [i \in 1..2500 |-> 2500 + i],
       [i \in 1..137 |-> IF i = 137 THEN 1 ELSE 5000 + i] >>

\* the remote sources: finitely many non-empty pages of at most batch_size
\* entries each, after which the remote returns the empty page
Sources ==
    UNION {[1..n -> SmallPage] : n \in 0..MaxPages} \cup {BigPages, BigPagesRepeat}

RECURSIVE PagesSize(_, _)
\* number of entries in the first k pages
PagesSize(src, k) == IF k = 0 THEN 0 ELSE PagesSize(src, k - 1) + Len(src[k])

\* _odfs.readdir(path, count, offset): the page that starts at `offset', the
\* empty page when no entry is left there
RemotePage(src, count, off) ==
    LET starts == {k \in 1..Len(src) : PagesSize(src, k - 1) = off}
    IN  IF starts = {} THEN <<>>
        ELSE LET page == src[CHOOSE k \in starts : TRUE]
             IN  SubSeq(page, 1, Min(count, Len(page)))

\* a listdir that keeps the entries of the current page only
Collected_LastPage(dir, b) == Range(b)

\* listdir: `for dir_entry in batch: _directory.add(dir_entry)'
Collected(dir, b) == dir \cup Range(b)

\* a listdir that asks for the next page by its index
NextOffset_PageIndex(off, b) == off + 1

\* listdir: `offset += len(batch)'
NextOffset(off, b) == off + Len(b)

\* listdir, up to the first readdir
ListdirBegin ==
    /\ lpc = "idle"
    /\ directory' = {}
    /\ loffset' = 0
    /\ batch' = RemotePage(pages, batch_size, 0)
    /\ lcalls' = << <<"readdir", Root, batch_size, 0>> >>
    /\ lpc' = "loop"
    /\ UNCHANGED <<stored, stored0, pages, lres, fsvars, filevars, permvars>>

\* listdir: one pass of `while True', the return when the page is empty
ListdirLoop ==
    /\ lpc = "loop"
    /\ IF Len(batch) = 0 THEN
           /\ lres' = directory
           /\ lpc' = "done"
           /\ UNCHANGED <<directory, loffset, batch, lcalls>>
       ELSE
           /\ directory' = Collected(directory, batch)
           /\ loffset' = NextOffset(loffset, batch)
           /\ batch' = RemotePage(pages, batch_size, NextOffset(loffset, batch))
           /\ lcalls' = Append(lcalls, <<"readdir", Root, batch_size,
                                         NextOffset(loffset, batch)>>)
           /\ UNCHANGED <<lres, lpc>>
    /\ UNCHANGED <<stored, stored0, pages, fsvars, filevars, permvars>>

InitList ==
    /\ kind = [p \in Paths |-> IF p = Root THEN "dir" ELSE "none"]
    /\ xattr = [p \in Paths |-> NoXattr]
    /\ kind0 = kind
    /\ res = Result("init", Root, <<>>, "ok", <<>>)
    /\ calls = <<>>
    /\ FreshHandle(<<>>, <<"r">>)
    /\ pmode = 0
    /\ perm = NoPerm
    /\ stored = [p \in Paths |-> 0]
    /\ stored0 = stored
    /\ pages \in Sources
    /\ directory = {}
    /\ loffset = 0
    /\ batch = <<>>
    /\ lpc = "idle"
    /\ lcalls = <<>>
    /\ lres = {}

NextList ==
    \/ ListdirBegin
    \/ ListdirLoop

SpecList == InitList /\ [][NextList]_vars

(***************************************************************************)
(* Conversion of mode bits to Permissions.                                 *)
(***************************************************************************)
\* the largest mode converted: 0o7777
MaxMode == 4095

S_IROTH == 4

S_IWOTH == 2

S_IXOTH == 1

S_IRGRP == 32

S_IWGRP == 16

S_IXGRP == 8

S_IRUSR == 256

S_IWUSR == 128

S_IXUSR == 64

S_ISVTX == 512

S_ISUID == 2048

S_ISGID == 1024

RECURSIVE And(_, _)
\* a & b on non-negative integers
And(a, b) ==
    IF a = 0 \/ b = 0 THEN 0
    ELSE (a % 2) * (b % 2) + 2 * And(a \div 2, b \div 2)

\* a conversion that tests the whole mode instead of the masked bit
PermChar_WholeMode(c, mask, mode) == IF mode # 0 THEN c ELSE "-"

\* `"r" if stat.S_IROTH & attr.mode else "-"'
PermChar(c, mask, mode) == IF And(mask, mode) # 0 THEN c ELSE "-"

\* fs.onedatafs._util.stat_to_permissions(attr), attr.mode = mode
stat_to_permissions(mode) ==
    [by |-> "stat_to_permissions",
     other |-> << PermChar("r", S_IROTH, mode), PermChar("w", S_IWOTH, mode),
                  PermChar("x", S_IXOTH, mode) >>,
     group |-> << PermChar("r", S_IRGRP, mode), PermChar("w", S_IWGRP, mode),
                  PermChar("x", S_IXGRP, mode) >>,
     user |-> << PermChar("r", S_IRUSR, mode), PermChar("w", S_IWUSR, mode),
                 PermChar("x", S_IXUSR, mode) >>,
     sticky |-> And(S_ISVTX, mode),
     setuid |-> And(S_ISUID, mode),
     setguid |-> And(S_ISGID, mode)]

\* fs_onedatafs._onedatafs.statToPermissions(attr), attr.mode = mode
statToPermissions(mode) ==
    [by |-> "statToPermissions",
     other |-> << PermChar("r", S_IROTH, mode), PermChar("w", S_IWOTH, mode),
                  PermChar("x", S_IXOTH, mode) >>,
     group |-> << PermChar("r", S_IRGRP, mode), PermChar("w", S_IWGRP, mode),
                  PermChar("x", S_IXGRP, mode) >>,
     user |-> << PermChar("r", S_IRUSR, mode), PermChar("w", S_IWUSR, mode),
                 PermChar("x", S_IXUSR, mode) >>,
     sticky |-> And(S_ISVTX, mode),
     setuid |-> And(S_ISUID, mode),
     setguid |-> And(S_ISGID, mode)]

\* Permissions.as_str(): the nine characters, the execute places showing a
\* truthy setuid, setguid or sticky flag
as_str(p) ==
    LET special(triple, flag, c, C) ==
            IF flag = 0 THEN triple
            ELSE << triple[1], triple[2], IF triple[3] = "x" THEN c ELSE C >>
    IN  special(p.user, p.setuid, "s", "S") \o special(p.group, p.setguid, "s", "S")
            \o special(p.other, p.sticky, "t", "T")

\* a call of stat_to_permissions
UtilConvert ==
    /\ perm' = stat_to_permissions(pmode)
    /\ UNCHANGED <<pmode, fsvars, filevars, dirvars>>

\* a call of statToPermissions
FsConvert ==
    /\ perm' = statToPermissions(pmode)
    /\ UNCHANGED <<pmode, fsvars, filevars, dirvars>>

InitPerm ==
    /\ kind = [p \in Paths |-> IF p = Root THEN "dir" ELSE "none"]
    /\ xattr = [p \in Paths |-> NoXattr]
    /\ kind0 = kind
    /\ res = Result("init", Root, <<>>, "ok", <<>>)
    /\ calls = <<>>
    /\ FreshHandle(<<>>, <<"r">>)
    /\ stored = [p \in Paths |-> 0]
    /\ stored0 = stored
    /\ pages = <<>>
    /\ directory = {}
    /\ loffset = 0
    /\ batch = <<>>
    /\ lpc = "idle"
    /\ lcalls = <<>>
    /\ lres = {}
    /\ pmode \in 0..MaxMode
    /\ perm = NoPerm

NextPerm ==
    \/ UtilConvert
    \/ FsConvert

SpecPerm == InitPerm /\ [][NextPerm]_vars

(***************************************************************************)
(* Properties of the namespace operations.                                 *)
(***************************************************************************)
Issued(name) == \E i \in 1..Len(calls) : calls[i][1] = name

\* C1: removedir on an existing non-root directory fails with
\* DirectoryNotEmpty and issues no remote delete when the directory holds an
\* entry, and issues the remote delete without failing when it holds none.
C1_RemovedirChecksEmptiness ==
    (res.op = "removedir" /\ res.path # Root /\ kind0[res.path] = "dir") =>
        IF ChildrenIn(kind0, res.path) # <<>>
        THEN res.outcome = "DirectoryNotEmpty" /\ ~Issued("unlink")
        ELSE res.outcome = "ok" /\ Issued("unlink")

\* C2: isempty returns true exactly when the listing probe readdir(path, 1, 0)
\* returns no entry, and false when the probe returns an entry.
C2_IsemptyTrueIffProbeEmpty ==
    (res.op = "isempty" /\ res.outcome = "ok") =>
        (Truthy(res.value) <=> RemoteReaddir(res.path, 1, 0) = <<>>)

\* C3: setxattr on an existing path invokes the remote set-attribute
\* primitive, and afterwards the attribute read back under that name is the
\* value that was passed, whatever was stored before.
C3_SetxattrStoresValue ==
    (res.op = "setxattr" /\ kind0[res.path] # "none") =>
        /\ Issued("setxattr")
        /\ RemoteGetxattr(res.path, res.arg[1]) = res.arg[2]

\* C4: openbin on a path whose metadata lookup reports not-found issues the
\* underlying open and returns a handle exactly when the mode requests write
\* access (alone or together with read access) and the parent is an existing
\* directory; otherwise it fails with ResourceNotFound and issues no open.
C4_OpenMissingPath ==
    (res.op = "openbin" /\ kind0[res.path] = "none") =>
        IF writing(res.arg) /\ kind0[dirname(res.path)] = "dir"
        THEN res.outcome = "ok" /\ Issued("open")
        ELSE res.outcome = "ResourceNotFound" /\ ~Issued("open")

(***************************************************************************)
(* Properties of the file handle, used by one thread at a time.            *)
(***************************************************************************)
\* thread t is between two calls: the state is the one its last call left
Returned(t, op) == pc[t] = "idle" /\ hres[t].op = op

\* C5: seek(pos, whence) sets the cursor to, and returns, pos for whence set,
\* (cursor before the call) + pos for whence current and (remote size) + pos
\* for whence end; any other whence fails with ValueError and leaves the
\* cursor unchanged.
C5_SeekHonoursWhence ==
    \A t \in SeqThreads : Returned(t, "seek") =>
        LET r == hres[t]
            p == r.arg[1]
            whence == r.arg[2]
            target == IF whence = 0 THEN p
                      ELSE IF whence = 1 THEN r.pos0 + p
                      ELSE Len(fdata) + p
        IN  IF whence \in SeekWhences
            THEN r.outcome = "ok" /\ pos = target /\ r.value = target
            ELSE r.outcome = "ValueError" /\ pos = r.pos0

\* C6: on a handle opened for reading and writing, write(data) at cursor 0,
\* then seek(0, set), then read(len(data)) returns exactly data.
C6_WriteSeekReadRoundTrip ==
    \A t \in SeqThreads : (pc[t] = "idle" /\ rt.st = 3) =>
        /\ hres[t].op = "read"
        /\ hres[t].outcome = "ok"
        /\ hres[t].value = rt.d

\* a round trip of data longer than one byte has completed
C6_Witness ==
    /\ pc["t1"] = "idle"
    /\ rt.st = 3
    /\ Len(rt.d) >= 2
    /\ hres["t1"].value = rt.d

\* C7: read(-1) as the first call on a readable handle over N bytes ends after
\* at most N + 1 positioned reads, returns exactly the N bytes and leaves the
\* cursor at N; a second read(-1) returns no bytes and leaves the cursor at N.
C7_ReadToEnd ==
    \A t \in SeqThreads :
        /\ (pc[t] = "read_loop" /\ cur[t].arg = -1 /\ fr \in {"fresh", "read1"})
               => Len(hcalls[t]) <= Len(fdata) + 1
        /\ (pc[t] = "idle" /\ fr = "read1") =>
               /\ hres[t].outcome = "ok"
               /\ hres[t].value = fdata
               /\ pos = Len(fdata)
               /\ Len(hcalls[t]) <= Len(fdata) + 1
        /\ (pc[t] = "idle" /\ fr = "read2") =>
               /\ hres[t].outcome = "ok"
               /\ hres[t].value = <<>>
               /\ pos = Len(fdata)
               /\ Len(hcalls[t]) = 1

\* both reads have completed on a file longer than one chunk
C7_Witness ==
    /\ pc["t1"] = "idle"
    /\ fr = "read2"
    /\ Len(fdata) > DEFAULT_CHUNK_SIZE
    /\ pos = Len(fdata)

\* C8: write(data) on a handle opened with write access issues exactly one
\* positioned write, of all of data, at the cursor held when the write starts;
\* when that call does not raise, the cursor advances by len(data) and
\* len(data) is returned.  Without write access the call fails, issues no
\* remote write and leaves the cursor unchanged.
C8_WriteAtCursor ==
    \A t \in SeqThreads : Returned(t, "write") =>
        LET r == hres[t]
        IN  IF writing(hmode)
            THEN /\ hcalls[t] = << <<"write", r.arg, r.pos0>> >>
                 /\ IF Refused(r.pos0)
                    THEN r.outcome = "RemoteError" /\ pos = r.pos0
                    ELSE /\ r.outcome = "ok"
                         /\ pos = r.pos0 + Len(r.arg)
                         /\ r.value = Len(r.arg)
            ELSE r.outcome = "IOError" /\ hcalls[t] = <<>> /\ pos = r.pos0

\* a write of two bytes at a cursor other than 0 has returned
C8_Witness ==
    /\ Returned("t1", "write")
    /\ hres["t1"].outcome = "ok"
    /\ hres["t1"].pos0 > 0
    /\ Len(hres["t1"].arg) = 2
    /\ pos = hres["t1"].pos0 + 2

\* C9: truncate(size) resizes the remote object at the handle's path to size
\* (0 when no size is given), returns size and leaves the cursor unchanged.
C9_TruncateResizes ==
    \A t \in SeqThreads : Returned(t, "truncate") =>
        /\ hres[t].outcome = "ok"
        /\ Len(fdata) = hres[t].arg
        /\ hres[t].value = hres[t].arg
        /\ pos = hres[t].pos0

\* C10: a close() on a handle that close() has already closed does not raise
\* and does not invoke the underlying close again.
C10_SecondCloseIsNoOp ==
    /\ closeCalls <= 1
    /\ \A t \in SeqThreads : (Returned(t, "close") /\ hres[t].was) =>
           /\ hres[t].outcome = "ok"
           /\ hcalls[t] = <<>>

\* the second of two close() calls has returned
C10_Witness ==
    /\ Returned("t1", "close")
    /\ hres["t1"].was
    /\ closed
    /\ closeCalls = 1

\* C11: when the underlying close raises during close(), the caller gets the
\* failure and the handle is marked closed all the same; a later close() is
\* a no-op that does not invoke the underlying close again.
C11_FailedCloseStillCloses ==
    /\ (closeCalls >= 1 /\ ~uclosed) => (closed /\ closeCalls = 1)
    /\ \A t \in SeqThreads :
        /\ (Returned(t, "close") /\ hcalls[t] # <<>> /\ ~uclosed) =>
               hres[t].outcome = "RemoteError"
        /\ (Returned(t, "close") /\ hres[t].was /\ ~uclosed) =>
               /\ hres[t].outcome = "ok"
               /\ hcalls[t] = <<>>

\* a close() has returned as a no-op after the close() whose underlying close raised
C11_Witness ==
    /\ Returned("t1", "close")
    /\ hres["t1"].was
    /\ hcalls["t1"] = <<>>
    /\ closeCalls = 1
    /\ ~uclosed
    /\ closed

\* C22: seek(pos, Seek.set) with pos beyond the size of the file leaves the
\* cursor at pos, not at the size; a read that starts with the cursor beyond
\* the size returns no bytes, does not fail and leaves the cursor where it was.
C22_SeekPastEndThenRead ==
    \A t \in SeqThreads :
        /\ (Returned(t, "seek") /\ hres[t].arg[2] = 0
                /\ hres[t].arg[1] > Len(fdata)) =>
               /\ hres[t].outcome = "ok"
               /\ hres[t].value = hres[t].arg[1]
               /\ pos = hres[t].arg[1]
        /\ (Returned(t, "read") /\ ~hres[t].was /\ reading(hmode)
                /\ hres[t].pos0 > Len(fdata)) =>
               /\ hres[t].outcome = "ok"
               /\ hres[t].value = <<>>
               /\ pos = hres[t].pos0

C22_Witness ==
    /\ Returned("t1", "read")
    /\ hres["t1"].arg = -1
    /\ hres["t1"].outcome = "ok"
    /\ hres["t1"].value = <<>>
    /\ Len(fdata) = 1
    /\ pos = 3
    /\ hcalls["t1"] = << <<"read", 3, DEFAULT_CHUNK_SIZE>> >>

\* C23: a read or write that begins after close() has completed on the handle
\* issues no positioned read and no positioned write on the underlying handle.
C23_NoPositionedCallAfterClose ==
    \A t \in SeqThreads :
        ((Returned(t, "read") \/ Returned(t, "write")) /\ hres[t].was) =>
            hcalls[t] = <<>>

\* C24: when a read or write fails because the positioned call raised, the
\* cursor is what it was when that read or write began, also when a read of
\* several chunks fails on a chunk after the first.
C24_CursorKeptOnFailure ==
    \A t \in SeqThreads :
        ((Returned(t, "read") \/ Returned(t, "write"))
            /\ hres[t].outcome = "RemoteError") =>
            pos = hres[t].pos0

\* C25: the cursor of a handle is never negative: it is 0 on a fresh handle
\* and no read, write, seek or truncate, whatever its arguments, takes it
\* below 0.
C25_CursorNeverNegative == pos >= 0

(***************************************************************************)
(* Properties of the file handle shared by two threads.                    *)
(***************************************************************************)
\* C12: whatever the interleaving of the close() calls of concurrent threads,
\* the underlying handle's close is invoked exactly once.
C12_ConcurrentCloseOnce ==
    (\A t \in Threads : Returned(t, "close")) => closeCalls = 1

\* what call c returns, and the content and cursor it leaves, when it runs
\* alone on an open handle with content s.f and cursor s.p
SeqCall(c, s) ==
    IF c.op = "write" THEN
        IF s.p < 0 THEN [f |-> s.f, p |-> s.p, out |-> "RemoteError", val |-> 0]
        ELSE [f |-> WriteOn(s.f, c.arg, s.p), p |-> s.p + Len(c.arg),
              out |-> "ok", val |-> Len(c.arg)]
    ELSE IF c.op = "seek" THEN
        [f |-> s.f, p |-> c.arg[1], out |-> "ok", val |-> c.arg[1]]
    ELSE
        LET left == Max(0, Len(s.f) - s.p)
            n == IF c.arg < 0 THEN left ELSE Min(c.arg, left)
        IN  IF s.p < 0 /\ c.arg # 0
            THEN [f |-> s.f, p |-> s.p, out |-> "RemoteError", val |-> <<>>]
            ELSE [f |-> s.f, p |-> s.p + n, out |-> "ok",
                  val |-> SubSeq(s.f, s.p + 1, s.p + n)]

\* the two calls gave what they give when t's call runs first, then u's
InOrder(t, u) ==
    LET s1 == SeqCall(hres[t], [f |-> ConcContent, p |-> 0])
        s2 == SeqCall(hres[u], s1)
    IN  /\ hres[t].outcome = s1.out /\ hres[t].value = s1.val
        /\ hres[u].outcome = s2.out /\ hres[u].value = s2.val
        /\ fdata = s2.f
        /\ pos = s2.p

\* C13: whatever the interleaving of the read, write and seek calls of
\* concurrent threads, what they return and the content and cursor they leave
\* are those of some sequential order of the calls; two concurrent writes of
\* lengths a and b from cursor p end with the cursor at p + a + b and were
\* issued at different offsets.
C13_Serializable ==
    (\A t \in Threads : pc[t] = "idle" /\ hres[t].op \in {"read", "write", "seek"}) =>
        /\ InOrder("t1", "t2") \/ InOrder("t2", "t1")
        /\ (\A t \in Threads : hres[t].op = "write") =>
               /\ pos = Len(hres["t1"].arg) + Len(hres["t2"].arg)
               /\ hcalls["t1"][1][3] # hcalls["t2"][1][3]

\* C17: openbin on a directory fails with FileExpected, openbin of an
\* existing file in an exclusive-create mode fails with FileExists; either
\* way the underlying open is not invoked and no handle is made.
C17_OpenbinRefusesExisting ==
    res.op = "openbin" =>
        /\ kind0[res.path] = "dir" =>
               /\ res.outcome = "FileExpected"
               /\ ~Issued("open")
               /\ res.value = <<>>
               /\ kind = kind0
        /\ (kind0[res.path] = "file" /\ "x" \in Chars(res.arg)) =>
               /\ res.outcome = "FileExists"
               /\ ~Issued("open")
               /\ res.value = <<>>
               /\ kind = kind0

C17_Witness ==
    /\ res.op = "openbin"
    /\ kind0[res.path] = "file"
    /\ res.arg = <<"x", "+">>
    /\ res.outcome = "FileExists"
    /\ calls = << <<"stat", res.path>> >>

\* C18: removedir of the root fails with RemoveRootError whether or not the
\* root is empty, and issues neither the listing probe nor a delete.
C18_RemovedirRoot ==
    (res.op = "removedir" /\ res.path = Root) =>
        /\ res.outcome = "RemoveRootError"
        /\ ~Issued("readdir")
        /\ ~Issued("unlink")
        /\ kind = kind0

C18_Witness ==
    /\ res.op = "removedir"
    /\ res.path = Root
    /\ res.outcome = "RemoveRootError"
    /\ ChildrenIn(kind0, Root) = <<>>
    /\ calls = <<>>

\* C19: getinfo turns the remote's 'No such file or directory' into
\* ResourceNotFound, re-raises any other failure of the metadata query as it
\* came, and returns an Info only when the query succeeded.
C19_GetinfoTranslatesNotFound ==
    res.op = "getinfo" =>
        LET fault == res.arg[1]
        IN  /\ (fault = "none" /\ kind0[res.path] = "none") =>
                   /\ res.outcome = "ResourceNotFound"
                   /\ res.value = <<>>
            /\ fault # "none" =>
                   /\ res.outcome = "RuntimeError"
                   /\ res.value = <<fault>>
            /\ res.outcome = "ok" =>
                   /\ fault = "none"
                   /\ kind0[res.path] # "none"
                   /\ res.value = <<"Info", kind0[res.path] = "dir">>

C19_Witness ==
    /\ res.op = "getinfo"
    /\ res.arg = <<"Input/output error">>
    /\ kind0[res.path] = "file"
    /\ res.outcome = "RuntimeError"
    /\ res.value = <<"Input/output error">>

(***************************************************************************)
(* Properties of move, makedir and getinfo.                                *)
(***************************************************************************)
\* C15: move(src, dst, overwrite) with overwrite false and dst existing fails
\* with FileExists, issues no rename and leaves the namespace as it was; with
\* overwrite true, src a file and dst another existing file, it succeeds,
\* src is gone and dst holds the data src held.
C15_MoveOverwrite ==
    res.op = "move" =>
        LET src == res.path
            dst == res.arg[1]
            overwrite == res.arg[2]
        IN  /\ (~overwrite /\ kind0[dst] # "none") =>
                   /\ res.outcome = "FileExists"
                   /\ ~Issued("rename")
                   /\ kind = kind0
                   /\ stored = stored0
            /\ (overwrite /\ kind0[src] = "file" /\ kind0[dst] = "file" /\ src # dst) =>
                   /\ res.outcome = "ok"
                   /\ kind[src] = "none"
                   /\ kind[dst] = "file"
                   /\ stored[dst] = stored0[src]

C15_Witness ==
    /\ res.op = "move"
    /\ res.arg[2]
    /\ res.outcome = "ok"
    /\ kind0[res.path] = "file"
    /\ kind0[res.arg[1]] = "file"
    /\ stored0[res.arg[1]] # stored0[res.path]
    /\ stored[res.arg[1]] = stored0[res.path]

\* the calls of that name among the remote calls of the last operation
IssuedCalls(name) == SelectSeq(calls, LAMBDA c : c[1] = name)

\* what the last makedir did is what makedir has to do
MakedirDone ==
    res.op = "makedir" =>
        LET path == res.path
            parent == dirname(res.path)
            wanted == IF res.arg = <<>> THEN 7 * 64 + 5 * 8 + 5 ELSE res.arg[1]
        IN  /\ kind0[parent] # "dir" =>
                   /\ res.outcome = "ResourceNotFound"
                   /\ ~Issued("mkdir")
                   /\ kind = kind0
            /\ (kind0[parent] = "dir" /\ kind0[path] # "none") =>
                   /\ res.outcome = "ok"
                   /\ ~Issued("mkdir")
                   /\ kind = kind0
            /\ (kind0[parent] = "dir" /\ kind0[path] = "none") =>
                   /\ res.outcome = "ok"
                   /\ IssuedCalls("mkdir") = << <<"mkdir", path, wanted>> >>
                   /\ kind = [kind0 EXCEPT ![path] = "dir"]

\* a makedir that follows a successful makedir of the same path
MakedirAgain ==
    /\ res.op = "makedir"
    /\ res.outcome = "ok"
    /\ res'.op = "makedir"
    /\ res'.path = res.path

\* C16: makedir fails with ResourceNotFound and creates nothing when the
\* parent is not an existing directory; with the parent a directory and the
\* target existing it creates nothing and does not fail, so a second makedir
\* of the same path leaves the namespace the first one left; with the target
\* missing it issues exactly one create, with mode 0o755 when no permissions
\* are given.
C16_MakedirIdempotent ==
    /\ []MakedirDone
    /\ [][MakedirAgain =>
              /\ res'.outcome = "ok"
              /\ kind' = kind
              /\ \A i \in 1..Len(calls') : calls'[i][1] # "mkdir"]_vars

C16_Witness ==
    /\ res.op = "makedir"
    /\ res.outcome = "ok"
    /\ res.arg = <<>>
    /\ kind0[res.path] = "none"
    /\ kind[res.path] = "dir"
    /\ calls[Len(calls)] = <<"mkdir", res.path, 493>>

(***************************************************************************)
(* Properties of listdir.                                                  *)
(***************************************************************************)
\* the names that appear in the pages of the remote source
SourceNames == UNION {Range(pages[k]) : k \in 1..Len(pages)}

\* C14: over a remote source of finitely many non-empty pages followed by an
\* empty page, listdir stops at the first empty page (one readdir per page and
\* one more) and returns exactly the distinct names of the pages; pages of
\* 2500, 2500 and 137 entries without a repeated name give 5137 entries, a
\* name repeated across pages gives fewer entries than the pages hold.
C14_ListdirCollectsPages ==
    /\ Len(lcalls) <= Len(pages) + 1
    /\ lpc = "done" =>
           /\ Len(lcalls) = Len(pages) + 1
           /\ lres = SourceNames
           /\ pages = BigPages => Cardinality(lres) = 5137
           /\ Cardinality(lres) <= PagesSize(pages, Len(pages))
           /\ (\E j, k \in 1..Len(pages) :
                   j # k /\ Range(pages[j]) \cap Range(pages[k]) # {}) =>
                  Cardinality(lres) < PagesSize(pages, Len(pages))

C14_Witness ==
    /\ lpc = "done"
    /\ pages = BigPagesRepeat
    /\ Cardinality(lres) = 5136

\* C21: every readdir of one listdir call asks for 2500 entries, from the
\* offset that is the number of entries all earlier pages of the call
\* returned, a repeated name counted every time: 0 for the first, never less
\* than for the page before.
C21_OffsetCountsEntries ==
    \A i \in 1..Len(lcalls) :
        /\ lcalls[i][1] = "readdir"
        /\ lcalls[i][3] = 2500
        /\ i <= Len(pages) + 1
        /\ lcalls[i][4] = PagesSize(pages, i - 1)
        /\ i = 1 => lcalls[i][4] = 0
        /\ i > 1 => lcalls[i][4] >= lcalls[i - 1][4]

C21_Witness ==
    /\ lpc = "done"
    /\ pages = << <<1, 2>>, <<2>>, <<1, 1>> >>
    /\ lcalls = << <<"readdir", Root, 2500, 0>>, <<"readdir", Root, 2500, 2>>,
                   <<"readdir", Root, 2500, 3>>, <<"readdir", Root, 2500, 5>> >>

(***************************************************************************)
(* Properties of the permission conversion.                                *)
(***************************************************************************)
\* bit k of the converted mode is set
ModeBit(k) == (pmode \div (2 ^ k)) % 2 = 1

\* C20: for every mode in 0..0o7777 both conversions give the user, group and
\* other triples and the sticky, setuid and setgid flags that testing each of
\* the 12 mode bits on its own gives; 0o777 reads 'rwxrwxrwx', 0o700
\* 'rwx------' and 0o644 'rw-r--r--'.
C20_PermissionsMatchBits ==
    perm.by # "none" =>
        LET char(c, k) == IF ModeBit(k) THEN c ELSE "-"
        IN  /\ perm.user = << char("r", 8), char("w", 7), char("x", 6) >>
            /\ perm.group = << char("r", 5), char("w", 4), char("x", 3) >>
            /\ perm.other = << char("r", 2), char("w", 1), char("x", 0) >>
            /\ (perm.sticky # 0) = ModeBit(9)
            /\ (perm.setguid # 0) = ModeBit(10)
            /\ (perm.setuid # 0) = ModeBit(11)
            /\ pmode = 7 * 64 + 7 * 8 + 7 =>
                   as_str(perm) = <<"r", "w", "x", "r", "w", "x", "r", "w", "x">>
            /\ pmode = 7 * 64 =>
                   as_str(perm) = <<"r", "w", "x", "-", "-", "-", "-", "-", "-">>
            /\ pmode = 6 * 64 + 4 * 8 + 4 =>
                   as_str(perm) = <<"r", "w", "-", "r", "-", "-", "r", "-", "-">>

C20_Witness ==
    /\ perm.by = "stat_to_permissions"
    /\ pmode = 2048 + 512 + 6 * 64 + 4 * 8 + 4
    /\ perm.user = <<"r", "w", "-">>
    /\ perm.setuid # 0
    /\ perm.setguid = 0
    /\ perm.sticky # 0

====
